---- MODULE Spec2Model ----
(***************************************************************************)
(* Model of the HC Recalls data loader (src/index.js): the DataLoader      *)
(* class (constructor, loadingText, mapRequest, start) and the pipeline    *)
(* functions initialize, getRecentData, getFullData, cleanData and         *)
(* startLoading.                                                           *)
(*                                                                         *)
(* JavaScript runs each piece of code between two awaits to completion,    *)
(* so one action of the model is one such piece: it begins where a         *)
(* promise settles (a datastore call, a prompt, a timer) and ends at the   *)
(* next await, at a return or in a catch block.                            *)
(***************************************************************************)
EXTENDS Integers, Sequences, FiniteSets, TLC

\* ------------------------------------------------------------------ bounds
\* Largest record set read from a stripped file (3 chunks of ChunkLimit).
MaxRecords == 51

\* ------------------------------------------------------- program constants
\* The batch limit of lines 169 and 177.
ChunkLimit == 25
\* The last category of the loops `for (let i = 1; i <= 4; i++)`.
LastCategory == 4
TABLE_NAME == "RecallsTestData-EN"

Categories == 1..LastCategory

\* --------------------------------------------------------- JavaScript values
\* A JavaScript value as far as a condition looks at it: undefined, an
\* object (an array included) or a number.
Undefined == [type |-> "undefined"]
Object == [type |-> "object"]
Num(n) == [type |-> "number", n |-> n]
\* Truthiness of such a value: undefined and 0 are falsy, an object is truthy.
Truthy(v) == v.type = "object" \/ (v.type = "number" /\ v.n # 0)

\* A text typed by the operator, as its sequence of characters.
Lower(c) ==
  CASE c = "Y" -> "y" [] c = "E" -> "e" [] c = "S" -> "s" [] c = "A" -> "a"
    [] c = "L" -> "l" [] c = "X" -> "x" [] c = "I" -> "i" [] c = "T" -> "t"
    [] c = "N" -> "n" [] c = "O" -> "o"
    [] OTHER -> c
toLowerCase(s) == [k \in 1..Len(s) |-> Lower(s[k])]

\* A field value of a record: a string leaf reached through a path of object
\* keys.  The native string "r7" is [path |-> <<>>, leaf |-> 7]; the wire
\* value {S: "r7"} is [path |-> <<"S">>, leaf |-> 7]; {M: {S: {S: "r7"}}} is
\* [path |-> <<"M", "S", "S">>, leaf |-> 7].
RECURSIVE InputPath(_)
InputPath(p) ==
  IF p = <<>> THEN <<"S">>
  ELSE <<"M", Head(p)>> \o InputPath(Tail(p))

\* AWS.DynamoDB.Converter.input: a string becomes {S: string}, an object
\* becomes {M: {key: input(value)}}.
ConverterInput(v) == [path |-> InputPath(v.path), leaf |-> v.leaf]

\* A record as parsed from a stripped file: one property, the key.
NativeRecord(k) == [recallId |-> [path |-> <<>>, leaf |-> k]]
NativeData(n) == [k \in 1..n |-> NativeRecord(k)]

\* ------------------------------------------------------------------- state
VARIABLES
  \* initialize (lines 379-438)
  recent, full, clean, dry, upload, all, \* the flags of line 381-388
  pc,          \* where initialize is: "initialize", "menu", a stage, "exit", "exited"
  menu,        \* what the last menu prompt led to: "none", "selected", "invalid", "exit"
  typed,       \* what the operator typed at the last menu prompt
  i,           \* the loop counter of the stage in progress (0: loop not entered)
  trace,       \* the stages entered so far, in order
  attempted,   \* the categories whose loop body the last stage has begun
  failedAt,    \* the category at which the last stage's catch block ran (0: none)
  readFailed,  \* startLoading's catch ran because a stripped file could not be read
  firstError,  \* the first datastore call that failed in this startLoading
  \* the datastore and the operator
  table,        \* "absent", "creating" or "active"
  totalCreates, \* createTable calls since the process started
  totalPrompts, \* creation questions asked since the process started
  \* the loader whose start() is running (lines 51-57, 128-252)
  data, category, dryArg, depth,
  lpc,          \* where start() is: "idle", the call it awaits, "returned", "threw"
  request, multiRequest, results,
  textInterval, \* "null", "active" or "cleared"
  dots,
  \* what the start() call of the top loader has done so far
  input,        \* the keys of the records the top loader was built with
  listed,       \* "unknown", "yes", "no": was TABLE_NAME in the table listing
  answer,       \* the operator's answer to the creation question
  bwCalls,      \* the batchWriteItem calls made: <<[wave, items]>>
  createCalls,  \* createTable calls made
  sleeps,       \* pacing delays awaited
  tickerStarts, \* setInterval calls made
  timers,       \* interval timers that are running
  written,      \* the debug files written: <<[file, isList, body]>>
  accepted,     \* the keys of the records the datastore accepted
  unprocessed,  \* the keys reported as unprocessed and not accepted since
  reports,      \* per batchWriteItem result: <<[wave, ids reported unprocessed]>>
  failedChunk,  \* the number of the batchWriteItem call that failed (0: none)
  outcome       \* the exit path start() took

flagVars == <<recent, full, clean, dry, upload, all>>
menuVars == <<menu, typed>>
procVars == <<pc, menuVars, i, trace, attempted, failedAt, readFailed, firstError>>
envVars == <<table, totalCreates, totalPrompts>>
frameVars == <<data, category, dryArg, depth, request, multiRequest, results, dots>>
dsVars == <<accepted, unprocessed, reports>>
histVars == <<input, listed, answer, bwCalls, createCalls, sleeps, tickerStarts,
              written, dsVars, failedChunk>>
vars == <<flagVars, procVars, envVars, frameVars, histVars,
          lpc, textInterval, timers, outcome>>

\* ------------------------------------------------- DataLoader: pure helpers
Min(a, b) == IF a <= b THEN a ELSE b

\* mapRequest (lines 115-121): every property of Item is replaced, in the
\* object itself, by its wire form; the same object is returned.
mapRequest(Item) == [prop \in DOMAIN Item |-> ConverterInput(Item[prop])]

\* this.data after line 165 has run: mapRequest has rewritten each record.
MapData(d) == [k \in DOMAIN d |-> mapRequest(d[k])]

\* The list built by R.map at line 165.
BuildItems(d) == [k \in DOMAIN d |-> [PutRequest |-> [Item |-> mapRequest(d[k])]]]

\* A request object {RequestItems: {[this.table]: items}} (lines 163-167, 175-179).
Request(items) == [RequestItems |-> (TABLE_NAME :> items)]
ItemsOf(req) == req.RequestItems[TABLE_NAME]

\* Splice that hands back one item fewer than it removes.
SpliceShort(list, n) ==
  [removed |-> SubSeq(list, 1, Min(n, Len(list)) - 1),
   rest |-> SubSeq(list, Min(n, Len(list)) + 1, Len(list))]

\* Array.prototype.splice(0, n): the removed head and what is left in place.
Splice(list, n) ==
  [removed |-> SubSeq(list, 1, Min(n, Len(list))),
   rest |-> SubSeq(list, Min(n, Len(list)) + 1, Len(list))]

\* The while loop of lines 174-184.
RECURSIVE ChunkLoop(_, _)
ChunkLoop(list, multi) ==
  IF Len(list) > 0
  THEN LET s == Splice(list, ChunkLimit)
       IN ChunkLoop(s.rest, Append(multi, Request(s.removed)))
  ELSE [list |-> list, multiRequest |-> multi]

\* Chunked with the test of line 169 written `>= 25`.
ChunkedAtLimit(items) ==
  IF Len(items) >= ChunkLimit
  THEN LET c == ChunkLoop(items, <<>>)
       IN [request |-> Request(c.list),
           multiRequest |-> [array |-> TRUE, chunks |-> c.multiRequest]]
  ELSE [request |-> Request(items),
        multiRequest |-> [array |-> FALSE, chunks |-> <<>>]]

\* Lines 161-185: multiRequest is false, or the array of chunk requests; the
\* request keeps the items the loop did not take.
Chunked(items) ==
  IF Len(items) > ChunkLimit
  THEN LET c == ChunkLoop(items, <<>>)
       IN [request |-> Request(c.list),
           multiRequest |-> [array |-> TRUE, chunks |-> c.multiRequest]]
  ELSE [request |-> Request(items),
        multiRequest |-> [array |-> FALSE, chunks |-> <<>>]]

\* multiRequest.length (lines 191, 199): false has no length.
MultiLength(m) == IF m.array THEN Num(Len(m.chunks)) ELSE Undefined

\* DebugContent that always takes the request, which the chunking loop has
\* emptied when there are chunks.
DebugContentRequestOnly(m, req) == [isList |-> FALSE, body |-> req]

\* What line 191 hands to JSON.stringify.
DebugContent(m, req) ==
  IF Truthy(MultiLength(m))
  THEN [isList |-> TRUE, body |-> m.chunks]
  ELSE [isList |-> FALSE, body |-> req]

\* The test of line 136 without its end anchor, /^y(?:es)?/i.
TestYesUnanchored(s) == Len(s) > 0 /\ Lower(s[1]) = "y"

\* The test of line 136, /^y(?:es)?$/i.
TestYes(s) == toLowerCase(s) \in {<<"y">>, <<"y", "e", "s">>}

\* The data batchWriteItem resolves with: UnprocessedItems is a map from
\* table name to the write requests not processed, {} when there are none.
NoItems == [t \in {} |-> <<>>]
Result(u) == [UnprocessedItems |-> IF u = <<>> THEN NoItems ELSE (TABLE_NAME :> u)]

\* R.keys(obj).length (line 234).
KeysLength(obj) == Cardinality(DOMAIN obj)

\* obj.length of a plain object (lines 215, 217, 238): its "length"
\* property, which a map keyed by table name does not have.
LengthProperty(obj) ==
  IF "length" \in DOMAIN obj THEN Object ELSE Undefined

\* The keys of the records in a list of write requests.
Ids(items) == {items[k].PutRequest.Item.recallId.leaf : k \in DOMAIN items}

\* What the datastore may leave unprocessed of a request: nothing, its first
\* item, or all of it.
UnprocessedChoices(items) ==
  {SubSeq(items, 1, m) : m \in {0, 1, Len(items)} \cap 0..Len(items)}

\* The operator's possible answers to the creation question.
Answers ==
  { <<"y">>, <<"Y">>, <<"y", "e", "s">>, <<"Y", "E", "S">>, <<"Y", "e", "s">>,
    <<"n">>, <<"n", "o">>, <<>>, <<"y", "e">>, <<"y", "e", "s", "s">>,
    <<"a", "y">>, <<"y", "y">> }

\* ------------------------------------------------------ DataLoader.start
\* clearInterval(this.textInterval) (lines 207, 229, 245).
ClearInterval ==
  /\ textInterval' = IF textInterval = "null" THEN "null" ELSE "cleared"
  /\ timers' = IF textInterval = "active" THEN timers - 1 ELSE timers

\* start() returns: every start() awaiting this one returns after it
\* (lines 219-224, 240-251).
Returns(o) ==
  /\ lpc' = "returned"
  /\ outcome' = o
  /\ depth' = 0

\* start() throws outside its try block (lines 130-158).  The start() of
\* the top loader rejects; a child's rejection lands in the catch block of
\* the start() that awaits it (lines 240, 244-249).
Throws(call) ==
  /\ lpc' = IF depth = 0 THEN "threw" ELSE "returned"
  /\ outcome' = IF depth = 0 THEN "Threw" ELSE "UploadFailed"
  /\ depth' = 0
  /\ firstError' = IF firstError.call = "none"
                   THEN [category |-> i, call |-> call] ELSE firstError

\* Line 130: listTables rejects.
ListTablesReject ==
  /\ lpc = "listTables"
  /\ Throws("listTables")
  /\ UNCHANGED <<flagVars, pc, menuVars, i, trace, attempted, failedAt, readFailed,
                 envVars, data, category, dryArg, request, multiRequest,
                 results, dots, histVars, textInterval, timers>>

\* Lines 130-134: the listing lacks TABLE_NAME; the operator is asked.
ListTablesMissing ==
  /\ lpc = "listTables"
  /\ table \in {"absent", "creating"}
  /\ listed' = "no"
  /\ totalPrompts' = totalPrompts + 1
  /\ lpc' = "prompt"
  /\ UNCHANGED <<flagVars, procVars, table, totalCreates, frameVars, input,
                 answer, bwCalls, createCalls, sleeps, tickerStarts, written,
                 dsVars, failedChunk, textInterval, timers,
                 outcome>>

\* PromptAnswer with the question of line 134 in a loop that is left only by
\* a yes: any other answer makes it ask again.
PromptAnswerAskAgain ==
  /\ lpc = "prompt"
  /\ \E createTable \in Answers :
       /\ answer' = createTable
       /\ IF TestYes(createTable)
          THEN /\ createCalls' = createCalls + 1
               /\ totalCreates' = totalCreates + 1
               /\ lpc' = "createTable"
          ELSE /\ lpc' = "prompt"
               /\ UNCHANGED <<createCalls, totalCreates>>
  /\ UNCHANGED <<flagVars, procVars, table, totalPrompts, data, category,
                 dryArg, request, multiRequest, results, dots, input, listed,
                 bwCalls, sleeps, tickerStarts, written, dsVars,
                 failedChunk, textInterval, timers, outcome, depth>>

\* Lines 134-158: the operator answers; createTable is called, or start()
\* returns.
PromptAnswer ==
  /\ lpc = "prompt"
  /\ \E createTable \in Answers :
       /\ answer' = createTable
       /\ IF TestYes(createTable)
          THEN /\ createCalls' = createCalls + 1
               /\ totalCreates' = totalCreates + 1
               /\ lpc' = "createTable"
               /\ UNCHANGED <<outcome, depth>>
          ELSE /\ Returns("Aborted")
               /\ UNCHANGED <<createCalls, totalCreates>>
  /\ UNCHANGED <<flagVars, procVars, table, totalPrompts, data, category,
                 dryArg, request, multiRequest, results, dots, input, listed,
                 bwCalls, sleeps, tickerStarts, written, dsVars,
                 failedChunk, textInterval, timers>>

\* Lines 137-157: createTable resolves; the table is being created.
CreateTableResolve ==
  /\ lpc = "createTable"
  /\ table = "absent"
  /\ table' = "creating"
  /\ Returns("TableCreationPending")
  /\ UNCHANGED <<flagVars, procVars, totalCreates, totalPrompts, data,
                 category, dryArg, request, multiRequest, results, dots,
                 histVars, textInterval, timers>>

\* Line 137: createTable rejects (the table is already being created, or any
\* other failure).
CreateTableReject ==
  /\ lpc = "createTable"
  /\ Throws("createTable")
  /\ UNCHANGED <<flagVars, pc, menuVars, i, trace, attempted, failedAt, readFailed,
                 envVars, data, category, dryArg, request, multiRequest,
                 results, dots, histVars, textInterval, timers>>

\* The datastore finishes creating the table.
TableBecomesActive ==
  /\ table = "creating"
  /\ table' = "active"
  /\ UNCHANGED <<flagVars, procVars, totalCreates, totalPrompts, frameVars,
                 histVars, lpc, textInterval, timers, outcome>>

\* The call this.batchWriteItem(req) of lines 203 and 227.
CallBatchWriteItem(req) ==
  /\ bwCalls' = Append(bwCalls, [wave |-> depth + 1, request |-> req])
  /\ lpc' = "batchWriteItem"

\* DryRun without the return of line 191: the debug file is written and the
\* insertion of lines 195-227 begins all the same.
DryRunWithoutReturn(m, req) ==
  /\ written' = Append(written, [file |-> category] @@ DebugContent(m, req))
  /\ textInterval' = "active"
  /\ timers' = timers + 1
  /\ tickerStarts' = tickerStarts + 1
  /\ IF Truthy(MultiLength(m))
     THEN CallBatchWriteItem(m.chunks[1])
     ELSE CallBatchWriteItem(req)
  /\ UNCHANGED <<outcome, depth>>

\* Lines 188-192: the dry run writes the debug file and returns.
DryRun(m, req) ==
  /\ written' = Append(written, [file |-> category] @@ DebugContent(m, req))
  /\ Returns("DryRunComplete")
  /\ UNCHANGED <<bwCalls, tickerStarts, textInterval, timers>>

\* Lines 195-203 and 227: the ticker is started and the first request is
\* submitted.
BeginInsert(m, req) ==
  /\ textInterval' = "active"
  /\ timers' = timers + 1
  /\ tickerStarts' = tickerStarts + 1
  /\ IF Truthy(MultiLength(m))
     THEN CallBatchWriteItem(m.chunks[1])
     ELSE CallBatchWriteItem(req)
  /\ UNCHANGED <<written, outcome, depth>>

\* Lines 130-203, 227: the listing has TABLE_NAME; the records are mapped
\* and chunked, then the dry run ends or the insertion begins.
ListTablesFound ==
  /\ lpc = "listTables"
  /\ table \in {"creating", "active"}
  /\ listed' = "yes"
  /\ LET c == Chunked(BuildItems(data))
     IN /\ data' = MapData(data)
        /\ request' = c.request
        /\ multiRequest' = c.multiRequest
        /\ IF dryArg
           THEN DryRun(c.multiRequest, c.request)
           ELSE BeginInsert(c.multiRequest, c.request)
  /\ UNCHANGED <<flagVars, procVars, envVars, category, dryArg, results, dots,
                 input, answer, createCalls, sleeps, dsVars,
                 failedChunk>>

\* The datastore takes the items of a request except the list u.
Accept(req, u) ==
  /\ accepted' = accepted \cup (Ids(ItemsOf(req)) \ Ids(u))
  /\ unprocessed' = (unprocessed \cup Ids(u)) \ (Ids(ItemsOf(req)) \ Ids(u))
  /\ reports' = Append(reports, [wave |-> depth + 1, ids |-> Ids(u)])

LastCall == bwCalls[Len(bwCalls)]

\* BatchWriteResolveMulti without the sleep of line 204: the result is
\* recorded and the next chunk, if any, is submitted at once.
BatchWriteResolveMultiUnpaced ==
  /\ lpc = "batchWriteItem"
  /\ Truthy(MultiLength(multiRequest))
  /\ table = "active"
  /\ \E u \in UnprocessedChoices(ItemsOf(LastCall.request)) :
       /\ Accept(LastCall.request, u)
       /\ results' = Append(results, Result(u))
  /\ IF Len(results) + 1 < Len(multiRequest.chunks)
     THEN CallBatchWriteItem(multiRequest.chunks[Len(results) + 2])
     ELSE /\ lpc' = "sleep"
          /\ UNCHANGED bwCalls
  /\ UNCHANGED <<flagVars, procVars, envVars, data, category, dryArg, depth,
                 request, multiRequest, dots, input, listed, answer,
                 createCalls, sleeps, tickerStarts, written, failedChunk,
                 textInterval, timers, outcome>>

\* Lines 203-204: a chunk's batchWriteItem resolves; its result is recorded
\* and the pacing delay begins.
BatchWriteResolveMulti ==
  /\ lpc = "batchWriteItem"
  /\ Truthy(MultiLength(multiRequest))
  /\ table = "active"
  /\ \E u \in UnprocessedChoices(ItemsOf(LastCall.request)) :
       /\ Accept(LastCall.request, u)
       /\ results' = Append(results, Result(u))
  /\ lpc' = "sleep"
  /\ UNCHANGED <<flagVars, procVars, envVars, data, category, dryArg, depth,
                 request, multiRequest, dots, input, listed, answer, bwCalls,
                 createCalls, sleeps, tickerStarts, written, failedChunk,
                 textInterval, timers, outcome>>

\* Lines 212-222: for each result, the retry of its unprocessed items.  A
\* result whose UnprocessedItems has a truthy length makes the callback read
\* `result`, which is declared at line 227 and not yet initialised: the
\* callback's promise rejects and the catch block of line 244 runs.
AllSettled(rs) ==
  \A k \in DOMAIN rs : ~Truthy(LengthProperty(rs[k].UnprocessedItems))

\* Lines 204-224: the pacing delay is over; the next chunk is submitted, or
\* the loop is over, the ticker is stopped and the results are gone through.
SleepDone ==
  /\ lpc = "sleep"
  /\ sleeps' = sleeps + 1
  /\ IF Len(results) < Len(multiRequest.chunks)
     THEN /\ CallBatchWriteItem(multiRequest.chunks[Len(results) + 1])
          /\ UNCHANGED <<textInterval, timers, outcome, depth>>
     ELSE /\ ClearInterval
          /\ Returns(IF AllSettled(results) THEN "UploadComplete" ELSE "UploadFailed")
          /\ UNCHANGED bwCalls
  /\ UNCHANGED <<flagVars, procVars, envVars, data, category, dryArg, request,
                 multiRequest, results, dots, input, listed, answer,
                 createCalls, tickerStarts, written, dsVars,
                 failedChunk>>

\* Lines 239-240: a loader over the unprocessed items is built and started
\* (without a category, and with dry undefined).
StartChild(items) ==
  /\ data' = items
  /\ category' = 0
  /\ dryArg' = FALSE
  /\ depth' = depth + 1
  /\ dots' = "..."
  /\ request' = Request(<<>>)
  /\ multiRequest' = [array |-> FALSE, chunks |-> <<>>]
  /\ results' = <<>>
  /\ lpc' = "listTables"
  /\ UNCHANGED outcome

\* Lines 227-251: the single request's batchWriteItem resolves; the ticker
\* is stopped; unprocessed items are reported and, when UnprocessedItems
\* has a truthy length, retried by a child loader.
BatchWriteResolveSingle ==
  /\ lpc = "batchWriteItem"
  /\ ~Truthy(MultiLength(multiRequest))
  /\ table = "active"
  /\ \E u \in UnprocessedChoices(ItemsOf(LastCall.request)) :
       LET result == Result(u)
           unprocessedItems == KeysLength(result.UnprocessedItems) # 0
       IN /\ Accept(LastCall.request, u)
          /\ IF unprocessedItems /\ Truthy(LengthProperty(result.UnprocessedItems))
             THEN /\ StartChild(u)
                  /\ textInterval' = "null"
                  /\ timers' = IF textInterval = "active" THEN timers - 1 ELSE timers
             ELSE /\ ClearInterval
                  /\ Returns("UploadComplete")
                  /\ UNCHANGED <<data, category, dryArg, dots, request,
                                 multiRequest, results>>
  /\ UNCHANGED <<flagVars, procVars, envVars, input, listed, answer, bwCalls,
                 createCalls, sleeps, tickerStarts, written, failedChunk>>

\* BatchWriteReject with the error caught inside the loop of lines 202-205:
\* the failure is noted and the loop goes on to the pacing delay.
BatchWriteRejectInLoop ==
  /\ lpc = "batchWriteItem"
  /\ failedChunk' = Len(bwCalls)
  /\ firstError' = IF firstError.call = "none"
                   THEN [category |-> i, call |-> "batchWriteItem"]
                   ELSE firstError
  /\ IF Truthy(MultiLength(multiRequest))
     THEN /\ results' = Append(results, Result(<<>>))
          /\ lpc' = "sleep"
          /\ UNCHANGED <<textInterval, timers, outcome, depth>>
     ELSE /\ ClearInterval
          /\ Returns("UploadFailed")
          /\ UNCHANGED results
  /\ UNCHANGED <<flagVars, pc, menuVars, i, trace, attempted, failedAt, readFailed,
                 envVars, data, category, dryArg, request, multiRequest,
                 dots, input, listed, answer, bwCalls, createCalls,
                 sleeps, tickerStarts, written, dsVars>>

\* BatchWriteReject without the clearInterval of line 245: the catch block
\* reports the error and leaves the ticker running.
BatchWriteRejectTickerLeft ==
  /\ lpc = "batchWriteItem"
  /\ failedChunk' = Len(bwCalls)
  /\ firstError' = IF firstError.call = "none"
                   THEN [category |-> i, call |-> "batchWriteItem"]
                   ELSE firstError
  /\ Returns("UploadFailed")
  /\ UNCHANGED <<flagVars, pc, menuVars, i, trace, attempted, failedAt, readFailed,
                 envVars, data, category, dryArg, request, multiRequest,
                 results, dots, input, listed, answer, bwCalls, createCalls,
                 sleeps, tickerStarts, written, dsVars, textInterval, timers>>

\* Lines 203, 227, 244-249: batchWriteItem rejects; the catch block stops
\* the ticker and reports the error; start() returns.
BatchWriteReject ==
  /\ lpc = "batchWriteItem"
  /\ failedChunk' = Len(bwCalls)
  /\ firstError' = IF firstError.call = "none"
                   THEN [category |-> i, call |-> "batchWriteItem"]
                   ELSE firstError
  /\ ClearInterval
  /\ Returns("UploadFailed")
  /\ UNCHANGED <<flagVars, pc, menuVars, i, trace, attempted, failedAt, readFailed,
                 envVars, data, category, dryArg, request, multiRequest,
                 results, dots, input, listed, answer, bwCalls, createCalls,
                 sleeps, tickerStarts, written, dsVars>>

\* loadingText (lines 92-107), run by the interval timer of line 195 while
\* start() awaits.  Line 195 passes the method unbound, so `this` is the
\* timer, whose dots are undefined at first: the switch takes its default
\* branch, as it does for the "..." of the constructor.
loadingText ==
  /\ textInterval = "active"
  /\ lpc \in {"batchWriteItem", "sleep"}
  /\ dots' = IF dots \in {"", ".", ".."} THEN dots \o "." ELSE ""
  /\ UNCHANGED <<flagVars, procVars, envVars, data, category, dryArg, depth,
                 request, multiRequest, results, histVars, lpc, textInterval,
                 timers, outcome>>

\* ------------------------------------------------------------ startLoading
\* The sizes of the record sets startLoading reads from the stripped files.
FileSizes == {0, 1, ChunkLimit, ChunkLimit + 1, MaxRecords}

NoError == [category |-> 0, call |-> "none"]

\* new DataLoader(data, TABLE_NAME, dynamoConfig, c) (lines 51-57, 264),
\* then loader.start(dryRun) up to its first await (lines 128-130, 266).
NewSession(records, c, dryRun) ==
  /\ data' = records
  /\ category' = c
  /\ dryArg' = dryRun
  /\ depth' = 0
  /\ request' = Request(<<>>)
  /\ multiRequest' = [array |-> FALSE, chunks |-> <<>>]
  /\ results' = <<>>
  /\ textInterval' = "null"
  /\ dots' = "..."
  /\ input' = Ids(BuildItems(records))
  /\ listed' = "unknown"
  /\ answer' = <<>>
  /\ bwCalls' = <<>>
  /\ createCalls' = 0
  /\ sleeps' = 0
  /\ tickerStarts' = 0
  /\ written' = <<>>
  /\ accepted' = {}
  /\ unprocessed' = {}
  /\ reports' = <<>>
  /\ failedChunk' = 0
  /\ outcome' = "none"
  /\ lpc' = "listTables"

\* One turn of the loop of lines 261-267 for category c, begun with the
\* categories att already attempted: the stripped file is read and parsed,
\* the loader is built and started; a failed read lands in the catch block
\* of line 269.
LoopBody(c, att) ==
  /\ i' = c
  /\ attempted' = att \cup {c}
  /\ \E readOk \in BOOLEAN :
       IF readOk
       THEN /\ \E n \in FileSizes : NewSession(NativeData(n), c, dry)
            /\ failedAt' = 0
            /\ readFailed' = FALSE
            /\ pc' = "upload"
       ELSE /\ failedAt' = c
            /\ readFailed' = TRUE
            /\ pc' = "exit"
            /\ lpc' = "idle"
            /\ UNCHANGED <<frameVars, histVars, textInterval, outcome>>
  /\ UNCHANGED timers

\* Lines 435, 259-266: startLoading(!!dry) is called when upload or dry is
\* set, and begins with category 1.
startLoading ==
  /\ pc = "upload"
  /\ i = 0
  /\ IF upload \/ dry
     THEN /\ trace' = Append(trace, "upload")
          /\ firstError' = NoError
          /\ LoopBody(1, {})
     ELSE /\ pc' = "exit"
          /\ UNCHANGED <<i, trace, attempted, failedAt, readFailed, firstError,
                         frameVars, histVars, lpc, textInterval, timers, outcome>>
  /\ UNCHANGED <<flagVars, menuVars, envVars>>

\* Lines 261-267: start() has returned; the loop goes on with the next
\* category, or is over.
StartReturned ==
  /\ pc = "upload"
  /\ lpc = "returned"
  /\ IF i < LastCategory
     THEN LoopBody(i + 1, attempted)
     ELSE /\ pc' = "exit"
          /\ lpc' = "idle"
          /\ UNCHANGED <<i, attempted, failedAt, readFailed, frameVars,
                         histVars, textInterval, timers, outcome>>
  /\ UNCHANGED <<flagVars, menuVars, trace, firstError, envVars>>

\* Lines 266-271: start() has thrown; the catch block around the loop runs
\* and startLoading returns.
StartThrew ==
  /\ pc = "upload"
  /\ lpc = "threw"
  /\ failedAt' = i
  /\ pc' = "exit"
  /\ lpc' = "idle"
  /\ UNCHANGED <<flagVars, menuVars, i, trace, attempted, readFailed, firstError,
                 envVars, frameVars, histVars, textInterval, timers, outcome>>

\* ------------------------------------------- getRecentData, getFullData
\* A stage that is not selected is skipped; a selected one enters its loop.
\* Lines 426, 278-288 (and 429, 305-308): the loop is entered with category 1.
EnterLoop(stage, selected, next) ==
  /\ pc = stage
  /\ i = 0
  /\ IF selected
     THEN /\ trace' = Append(trace, stage)
          /\ i' = 1
          /\ attempted' = {1}
          /\ failedAt' = 0
          /\ UNCHANGED pc
     ELSE /\ pc' = next
          /\ UNCHANGED <<i, trace, attempted, failedAt>>
  /\ UNCHANGED <<flagVars, menuVars, readFailed, firstError, envVars, frameVars,
                 histVars, lpc, textInterval, timers, outcome>>

\* One turn of a stage's loop: the work for category i succeeds and the
\* loop goes on, or it throws and the catch block around the loop runs.
LoopTurn(stage, next) ==
  /\ pc = stage
  /\ i \in Categories
  /\ \E ok \in BOOLEAN :
       IF ok /\ i < LastCategory
       THEN /\ i' = i + 1
            /\ attempted' = attempted \cup {i + 1}
            /\ UNCHANGED <<pc, failedAt>>
       ELSE /\ failedAt' = IF ok THEN 0 ELSE i
            /\ pc' = next
            /\ i' = 0
            /\ UNCHANGED attempted
  /\ UNCHANGED <<flagVars, menuVars, trace, readFailed, firstError, envVars,
                 frameVars, histVars, lpc, textInterval, timers, outcome>>

\* getRecentData with line 429 missing: an unselected fetch stage hands over
\* to the clean stage.
getRecentDataThenClean ==
  /\ pc = "recent"
  /\ EnterLoop("recent", recent, "clean")

\* Lines 426, 278-287.
getRecentData ==
  /\ pc = "recent"
  /\ EnterLoop("recent", recent, "full")

\* Lines 288-298: the listing of category i is fetched, parsed and written,
\* or one of these throws.
RecentTurn ==
  /\ pc = "recent"
  /\ LoopTurn("recent", "full")

\* Lines 429, 305-307.
getFullData ==
  /\ pc = "full"
  /\ EnterLoop("full", full, "clean")

\* Lines 308-332: the file of category i is read, its items are replaced by
\* their details and the file is rewritten, or one of these throws.
FullTurn ==
  /\ pc = "full"
  /\ LoopTurn("full", "clean")

\* Lines 432, 360-373: cleanData runs its whole loop without awaiting; it
\* throws at category k, or (k past the last category) not at all.
cleanData ==
  /\ pc = "clean"
  /\ IF clean
     THEN /\ trace' = Append(trace, "clean")
          /\ \E k \in 1..(LastCategory + 1) :
               /\ attempted' = 1..Min(k, LastCategory)
               /\ failedAt' = IF k <= LastCategory THEN k ELSE 0
     ELSE UNCHANGED <<trace, attempted, failedAt>>
  /\ pc' = "upload"
  /\ UNCHANGED <<flagVars, menuVars, i, readFailed, firstError, envVars, frameVars,
                 histVars, lpc, textInterval, timers, outcome>>

\* ------------------------------------------------------------- initialize
NoneSelected(r, f, c, u, d) == ~r /\ ~f /\ ~c /\ ~u /\ ~d

\* Lines 381-395: --all switches on recent, full, clean and upload; with no
\* stage selected the menu is shown.
ParseArgs ==
  /\ pc = "initialize"
  /\ recent' = (recent \/ all)
  /\ full' = (full \/ all)
  /\ clean' = (clean \/ all)
  /\ upload' = (upload \/ all)
  /\ pc' = IF NoneSelected(recent', full', clean', upload', dry)
           THEN "menu" ELSE "recent"
  /\ UNCHANGED <<dry, all, menuVars, i, trace, attempted, failedAt, readFailed,
                 firstError, envVars, frameVars, histVars, lpc, textInterval,
                 timers, outcome>>

\* What the operator may type at the menu.
MenuInputs ==
  { <<"1">>, <<"2">>, <<"3">>, <<"4">>, <<"5">>, <<"e">>, <<"a">>,
    <<"a", "l", "l">>, <<"A", "L", "L">>, <<"e", "x", "i", "t">>,
    <<"E", "x", "i", "t">>, <<"x">>, <<>> }

\* Lines 395-423: the switch over the lower-cased input, then the loop test.
MenuChoice ==
  /\ pc = "menu"
  /\ \E line \in MenuInputs :
       LET choice == toLowerCase(line)
           known == {<<"1">>, <<"2">>, <<"3">>, <<"4">>, <<"5">>,
                     <<"a", "l", "l">>}
       IN /\ recent' = (choice \in {<<"1">>, <<"a", "l", "l">>})
          /\ full' = (choice \in {<<"2">>, <<"a", "l", "l">>})
          /\ clean' = (choice \in {<<"3">>, <<"a", "l", "l">>})
          /\ upload' = (choice \in {<<"4">>, <<"5">>, <<"a", "l", "l">>})
          /\ dry' = (choice \in {<<"5">>, <<"a", "l", "l">>})
          /\ typed' = line
          /\ menu' = CASE choice \in known -> "selected"
                       [] choice = <<"e", "x", "i", "t">> -> "exit"
                       [] OTHER -> "invalid"
          /\ pc' = CASE choice \in known -> "recent"
                     [] choice = <<"e", "x", "i", "t">> -> "exited"
                     [] OTHER -> "menu"
  /\ UNCHANGED <<all, i, trace, attempted, failedAt, readFailed, firstError,
                 envVars, frameVars, histVars, lpc, textInterval, timers,
                 outcome>>

\* Line 437: process.exit().
Exit ==
  /\ pc = "exit"
  /\ pc' = "exited"
  /\ UNCHANGED <<flagVars, menuVars, i, trace, attempted, failedAt, readFailed,
                 firstError, envVars, frameVars, histVars, lpc, textInterval,
                 timers, outcome>>

\* ----------------------------------------------------------- specification
IdleLoader ==
  /\ data = <<>>
  /\ category = 0
  /\ dryArg = FALSE
  /\ depth = 0
  /\ lpc = "idle"
  /\ request = Request(<<>>)
  /\ multiRequest = [array |-> FALSE, chunks |-> <<>>]
  /\ results = <<>>
  /\ textInterval = "null"
  /\ dots = "..."
  /\ input = {}
  /\ listed = "unknown"
  /\ answer = <<>>
  /\ bwCalls = <<>>
  /\ createCalls = 0
  /\ sleeps = 0
  /\ tickerStarts = 0
  /\ timers = 0
  /\ written = <<>>
  /\ accepted = {}
  /\ unprocessed = {}
  /\ reports = <<>>
  /\ failedChunk = 0
  /\ outcome = "none"

\* The process as node starts it: any command line, a table that exists or
\* not.
Init ==
  /\ recent \in BOOLEAN /\ full \in BOOLEAN /\ clean \in BOOLEAN
  /\ dry \in BOOLEAN /\ upload \in BOOLEAN /\ all \in BOOLEAN
  /\ pc = "initialize"
  /\ menu = "none"
  /\ typed = <<>>
  /\ i = 0
  /\ trace = <<>>
  /\ attempted = {}
  /\ failedAt = 0
  /\ readFailed = FALSE
  /\ firstError = NoError
  /\ table \in {"absent", "active"}
  /\ totalCreates = 0
  /\ totalPrompts = 0
  /\ IdleLoader

StartActions ==
  \/ ListTablesReject
  \/ ListTablesMissing
  \/ ListTablesFound
  \/ PromptAnswer
  \/ CreateTableResolve
  \/ CreateTableReject
  \/ TableBecomesActive
  \/ BatchWriteResolveMulti
  \/ BatchWriteResolveSingle
  \/ BatchWriteReject
  \/ SleepDone
  \/ loadingText

Next ==
  \/ ParseArgs
  \/ MenuChoice
  \/ getRecentData
  \/ RecentTurn
  \/ getFullData
  \/ FullTurn
  \/ cleanData
  \/ startLoading
  \/ StartReturned
  \/ StartThrew
  \/ Exit
  \/ StartActions

Spec == Init /\ [][Next]_vars

\* One start() call on its own: a loader built over 0..MaxRecords records of
\* any category, started dry or not, against a table that exists or not.
InitStart ==
  /\ recent = FALSE /\ full = FALSE /\ clean = FALSE /\ all = FALSE
  /\ upload = TRUE
  /\ dry \in BOOLEAN
  /\ pc = "upload"
  /\ menu = "none"
  /\ typed = <<>>
  /\ i \in Categories
  /\ trace = <<"upload">>
  /\ attempted = {i}
  /\ failedAt = 0
  /\ readFailed = FALSE
  /\ firstError = NoError
  /\ table \in {"absent", "active"}
  /\ totalCreates = 0
  /\ totalPrompts = 0
  /\ \E n \in 0..MaxRecords :
       /\ data = NativeData(n)
       /\ input = 1..n
  /\ category = i
  /\ dryArg = dry
  /\ depth = 0
  /\ lpc = "listTables"
  /\ request = Request(<<>>)
  /\ multiRequest = [array |-> FALSE, chunks |-> <<>>]
  /\ results = <<>>
  /\ textInterval = "null"
  /\ dots = "..."
  /\ listed = "unknown"
  /\ answer = <<>>
  /\ bwCalls = <<>>
  /\ createCalls = 0
  /\ sleeps = 0
  /\ tickerStarts = 0
  /\ timers = 0
  /\ written = <<>>
  /\ accepted = {}
  /\ unprocessed = {}
  /\ reports = <<>>
  /\ failedChunk = 0
  /\ outcome = "none"

NextStart == StartActions

SpecStart == InitStart /\ [][NextStart]_vars

\* The steps of start() itself: each datastore call, prompt and pacing delay
\* it awaits comes back, and the code after the await runs.  The ticker's
\* callback and the datastore's own progress are not among them.
Progress ==
  \/ ListTablesReject
  \/ ListTablesMissing
  \/ ListTablesFound
  \/ PromptAnswer
  \/ CreateTableResolve
  \/ CreateTableReject
  \/ BatchWriteResolveMulti
  \/ SleepDone
  \/ BatchWriteResolveSingle
  \/ BatchWriteReject

\* One start() call whose awaited calls all come back.
SpecStartFair == InitStart /\ [][NextStart]_vars /\ WF_vars(Progress)

\* ================================================================== claims
\* The keys of the records a loader holds.
RecordIds(d) == {d[k].recallId.leaf : k \in DOMAIN d}

\* The number of records the top loader was built with.
N == Cardinality(input)

\* The submission waves run so far.
Waves == {bwCalls[k].wave : k \in DOMAIN bwCalls}

\* The keys submitted in wave w, and those reported unprocessed in wave w.
SubmittedIn(w) ==
  UNION {Ids(ItemsOf(bwCalls[k].request)) : k \in {j \in DOMAIN bwCalls : bwCalls[j].wave = w}}
ReportedIn(w) ==
  UNION {reports[k].ids : k \in {j \in DOMAIN reports : reports[j].wave = w}}

\* C1: a non-dry start() on an existing table whose first wave is reported
\* partly unprocessed, and whose later submissions are all accepted, returns
\* after exactly two waves, the second over exactly the unprocessed records,
\* with no record left unprocessed.
C1_RetryCompletes ==
  ( /\ lpc = "returned"
    /\ ~dryArg
    /\ listed = "yes"
    /\ failedChunk = 0
    /\ ReportedIn(1) # {}
    /\ \A k \in DOMAIN reports : reports[k].wave > 1 => reports[k].ids = {} )
  => ( /\ Waves = {1, 2}
       /\ SubmittedIn(2) = ReportedIn(1)
       /\ unprocessed = {} )

\* The records of the wave in progress: those of the loader that is running.
WaveInProgress == IF lpc \in {"batchWriteItem", "sleep"} THEN RecordIds(data) ELSE {}

\* C2: during an upload session that no submission error has aborted, every
\* input record is accepted or belongs to the wave in progress; once start()
\* has returned, every input record is accepted.
C2_NoRecordLost ==
  (~dryArg /\ listed = "yes" /\ failedChunk = 0 /\ outcome # "UploadFailed")
  => input \subseteq (accepted \cup WaveInProgress)

\* C3: when batchWriteItem fails on chunk k of a multi-chunk start(), the
\* calls made are exactly the chunks 1..k, all in the first wave, and start()
\* has ended with the error reported.
C3_AbortOnError ==
  (multiRequest.array /\ failedChunk # 0)
  => ( /\ Len(bwCalls) = failedChunk
       /\ \A k \in DOMAIN bwCalls :
            bwCalls[k] = [wave |-> 1, request |-> multiRequest.chunks[k]]
       /\ lpc = "returned"
       /\ depth = 0
       /\ outcome = "UploadFailed" )

\* C3 witness: the second of three chunks fails.
C3_Witness ==
  /\ multiRequest.array
  /\ Len(multiRequest.chunks) = 3
  /\ failedChunk = 2
  /\ lpc = "returned"

\* The wire form of record k, {recallId: {S: key k}}, as a write request.
WireItem(k) == [PutRequest |-> [Item |-> [recallId |-> [path |-> <<"S">>, leaf |-> k]]]]

\* The mapped records k..m, in input order.
WireItems(k, m) == [j \in 1..(m - k + 1) |-> WireItem(k + j - 1)]

\* Chunk j of n mapped records: the records ChunkLimit*(j-1)+1 .. ChunkLimit*j.
WireChunk(j, n) == WireItems(ChunkLimit * (j - 1) + 1, Min(ChunkLimit * j, n))

\* ceil(n / ChunkLimit).
ChunkCount(n) == (n + ChunkLimit - 1) \div ChunkLimit

\* C4: with the dry flag set, no start() call invokes batchWriteItem, waits
\* the pacing delay or starts the ticker, and every start() call is a dry one.
C4_DryNeverSubmits ==
  dry
  => ( /\ bwCalls = <<>>
       /\ sleeps = 0
       /\ tickerStarts = 0
       /\ timers = 0
       /\ textInterval = "null"
       /\ lpc \notin {"batchWriteItem", "sleep"}
       /\ (lpc # "idle" => dryArg) )

\* C4 witness: --all --dry has run a dry start() over more than one chunk.
C4_Witness ==
  /\ dry /\ all
  /\ lpc = "returned"
  /\ outcome = "DryRunComplete"
  /\ N > ChunkLimit

\* C5: a dry start() on an existing table has written, when it returns,
\* exactly one debug file, that of its category, holding the one request
\* with all mapped records when there are at most ChunkLimit of them and
\* the list of all chunk requests otherwise.
C5_DryRunArtifact ==
  (dryArg /\ listed = "yes")
  => ( /\ lpc = "returned"
       /\ Len(written) = 1
       /\ written[1].file = category
       /\ IF N <= ChunkLimit
          THEN /\ ~written[1].isList
               /\ written[1].body = Request(WireItems(1, N))
          ELSE /\ written[1].isList
               /\ written[1].body = [j \in 1..ChunkCount(N) |-> Request(WireChunk(j, N))] )

\* C5 witness: a dry run over three chunks has written its file.
C5_Witness ==
  /\ dryArg
  /\ lpc = "returned"
  /\ Len(written) = 1
  /\ written[1].isList
  /\ Len(written[1].body) = 3

\* The concatenation of the item lists of a sequence of requests.
RECURSIVE Concat(_)
Concat(reqs) ==
  IF reqs = <<>> THEN <<>> ELSE ItemsOf(Head(reqs)) \o Concat(Tail(reqs))

\* C6: a record set of more than ChunkLimit records is cut into
\* ceil(N / ChunkLimit) chunks of 1 to ChunkLimit items each, whose
\* concatenation is the mapped input.
C6_Chunking ==
  (listed = "yes" /\ N > ChunkLimit)
  => ( /\ multiRequest.array
       /\ Len(multiRequest.chunks) = ChunkCount(N)
       /\ \A j \in DOMAIN multiRequest.chunks :
            /\ Len(ItemsOf(multiRequest.chunks[j])) >= 1
            /\ Len(ItemsOf(multiRequest.chunks[j])) <= ChunkLimit
       /\ Concat(multiRequest.chunks) = WireItems(1, N) )

\* C6 witness: a set that needs three chunks, the last one not full.
C6_Witness ==
  /\ listed = "yes"
  /\ N > 2 * ChunkLimit
  /\ Len(multiRequest.chunks) = 3
  /\ Len(ItemsOf(multiRequest.chunks[3])) < ChunkLimit

\* C7: the multi-request mode is taken exactly when N > ChunkLimit; with
\* N <= ChunkLimit a non-dry start() on an existing table calls
\* batchWriteItem once, with all N mapped records in input order, and never
\* waits the pacing delay.
C7_SmallSetsOneRequest ==
  (listed = "yes")
  => ( /\ Truthy(MultiLength(multiRequest)) <=> (N > ChunkLimit)
       /\ (~dryArg /\ N <= ChunkLimit)
          => ( /\ bwCalls = <<[wave |-> 1, request |-> Request(WireItems(1, N))]>>
               /\ sleeps = 0
               /\ results = <<>>
               /\ lpc \in {"batchWriteItem", "returned"} ) )

\* C7 witness: exactly ChunkLimit records were uploaded in one request.
C7_Witness ==
  /\ listed = "yes"
  /\ ~dryArg
  /\ N = ChunkLimit
  /\ outcome = "UploadComplete"
  /\ accepted = input

\* The answers 'y' and 'yes' in any letter case.
IsYes(s) ==
  \/ Len(s) = 1 /\ s[1] \in {"y", "Y"}
  \/ Len(s) = 3 /\ s[1] \in {"y", "Y"} /\ s[2] \in {"e", "E"} /\ s[3] \in {"s", "S"}

\* C8: when the listing lacks the table, batchWriteItem is not invoked and
\* no debug file is written; createTable is invoked once if the answer is
\* 'y' or 'yes' in any letter case, and not at all otherwise.
C8_MissingTable ==
  (listed = "no")
  => ( /\ bwCalls = <<>>
       /\ written = <<>>
       /\ tickerStarts = 0
       /\ lpc \in {"prompt", "createTable", "returned", "threw"}
       /\ createCalls = IF lpc # "prompt" /\ IsYes(answer) THEN 1 ELSE 0 )

\* C8 witness: the operator answered 'Yes' and createTable resolved.
C8_Witness ==
  /\ listed = "no"
  /\ answer = <<"Y", "e", "s">>
  /\ createCalls = 1
  /\ outcome = "TableCreationPending"

\* The last stage entered.
LastStage == IF trace = <<>> THEN "none" ELSE trace[Len(trace)]

\* C9: after a datastore call has failed in the upload session of category
\* c, startLoading has run the upload session of every later category.
C9_UploadErrorsLocal ==
  ( /\ pc \in {"exit", "exited"}
    /\ LastStage = "upload"
    /\ firstError.call # "none"
    /\ ~readFailed )
  => (firstError.category + 1)..LastCategory \subseteq attempted

\* C10: after the fetch stage or the clean stage has failed on category c,
\* the same stage has been executed for every later category.
C10_StageErrorsLocal ==
  ( /\ LastStage \in {"recent", "clean"}
    /\ pc # LastStage
    /\ failedAt # 0 )
  => (failedAt + 1)..LastCategory \subseteq attempted

\* The stages in the order of lines 426-435, and their rank in it.
StageOrder == <<"recent", "full", "clean", "upload">>
Rank(stage) == CHOOSE k \in DOMAIN StageOrder : StageOrder[k] = stage

\* The flag of a stage.
FlagOf(stage) ==
  CASE stage = "recent" -> recent
    [] stage = "full" -> full
    [] stage = "clean" -> clean
    [] stage = "upload" -> upload

\* What makes line 426, 429, 432 or 435 run its stage: the stage's flag, and
\* for the upload stage the dry flag too.
Selected(stage) == FlagOf(stage) \/ (stage = "upload" /\ dry)

\* The work of a stage is in progress: its loop is running, or a start()
\* call is.
InProgress == (pc \in {"recent", "full", "clean", "upload"} /\ i # 0) \/ lpc # "idle"

StageEnded == failedAt # 0 \/ readFailed \/ attempted = Categories

\* What holds of the stages in every state: they are entered in the order
\* recent, full, clean, upload; only selected stages are entered; work goes
\* on only for the stage entered last; the process has exited, other than
\* from the menu, only with every selected stage entered and no work going on.
StagesInOrder ==
  /\ \A a, b \in DOMAIN trace : a < b => Rank(trace[a]) < Rank(trace[b])
  /\ \A a \in DOMAIN trace : Selected(trace[a])
  /\ InProgress => (pc = LastStage /\ (lpc # "idle" => pc = "upload"))
  /\ (pc \in {"exit", "exited"} /\ menu # "exit")
     => ( /\ trace = SelectSeq(StageOrder, Selected)
          /\ lpc = "idle"
          /\ (trace # <<>> => StageEnded) )
  /\ (all /\ pc \in {"exit", "exited"}) => trace = StageOrder

Outstanding ==
  Len(bwCalls) - Len(reports) - (IF failedChunk # 0 THEN 1 ELSE 0)

\* C12: at most one batchWriteItem call is outstanding, and it is while
\* start() awaits it; a call after the first of a session is made only with
\* the result of every earlier call recorded and with one pacing delay
\* elapsed for each earlier call.
C12_SequentialPaced ==
  /\ Outstanding \in {0, 1}
  /\ (Outstanding = 1) <=> (lpc = "batchWriteItem")
  /\ Len(bwCalls) <= sleeps + 1
  /\ Len(bwCalls) > 1 =>
       /\ multiRequest.array
       /\ Len(results) >= Len(bwCalls) - 1
       /\ Len(reports) >= Len(bwCalls) - 1
  /\ sleeps <= Len(results)

\* C12 witness: three chunks have been submitted one after the other, each
\* followed by its pacing delay.
C12_Witness ==
  /\ Len(bwCalls) = 3
  /\ Len(reports) = 3
  /\ sleeps = 3
  /\ lpc = "returned"

\* C13: once start() has returned or thrown, no ticker is running; and no
\* more than one ticker ever runs.
C13_TickerCancelled ==
  /\ timers = (IF textInterval = "active" THEN 1 ELSE 0)
  /\ lpc \in {"idle", "returned", "threw"} =>
       (timers = 0 /\ textInterval # "active")
  /\ (tickerStarts > 0 /\ lpc \in {"returned", "threw"}) =>
       textInterval = "cleared"

\* C13 witness: the ticker was started, the second chunk's batchWriteItem
\* failed, and start() has returned with the ticker stopped.
C13_Witness ==
  /\ tickerStarts = 1
  /\ failedChunk = 2
  /\ lpc = "returned"
  /\ textInterval = "cleared"
  /\ timers = 0

\* The batchWriteItem calls of wave w.
CallsIn(w) == {k \in DOMAIN bwCalls : bwCalls[k].wave = w}

\* C14: when a multi-chunk start() has returned without a submission error
\* and some chunk result reported unprocessed records, a second wave was
\* run, after the last chunk of the first, over exactly the union of the
\* records the first wave's results reported unprocessed.
C14_AggregatedRetry ==
  ( /\ lpc = "returned"
    /\ ~dryArg
    /\ Cardinality(CallsIn(1)) > 1
    /\ failedChunk = 0
    /\ ReportedIn(1) # {} )
  => ( /\ 2 \in Waves
       /\ \A a \in CallsIn(1), b \in CallsIn(2) : a < b
       /\ SubmittedIn(2) = ReportedIn(1) )

\* C15: the records the loader holds are those it was built with, and
\* mapping a record it holds gives the wire form of the record as built.
C15_MapperPure ==
  depth = 0 =>
    /\ data = NativeData(Len(data))
    /\ \A k \in DOMAIN data : mapRequest(data[k]) = mapRequest(NativeRecord(k))

\* The operator chose the entry `all` at the menu.
MenuAll == menu = "selected" /\ toLowerCase(typed) = <<"a", "l", "l">>

\* C16: once the entire process has been chosen, by --all or by the menu's
\* `all`, the four stage flags are set; the menu's `all` leaves dry unset,
\* and its upload sessions on a listed table submit and write no debug file.
C16_AllExceptDry ==
  /\ (all /\ pc # "initialize") => (recent /\ full /\ clean /\ upload)
  /\ MenuAll => (recent /\ full /\ clean /\ upload /\ ~dry)
  /\ (MenuAll /\ lpc = "returned" /\ listed = "yes")
       => (written = <<>> /\ bwCalls # <<>>)

\* The inputs the menu text of line 397 advertises, lower-cased.
Advertised ==
  { <<"1">>, <<"2">>, <<"3">>, <<"4">>, <<"5">>, <<"e">>,
    <<"e", "x", "i", "t">>, <<"a">>, <<"a", "l", "l">> }

\* C17: an advertised input is never answered with "Invalid choice..." and
\* an input answered so is not advertised; `e` and `exit` exit with no stage
\* run; `a` and `all` select the four stages.
C17_AdvertisedAccepted ==
  menu # "none" =>
    LET choice == toLowerCase(typed)
    IN /\ (choice \in Advertised) <=> (menu # "invalid")
       /\ choice \in {<<"e">>, <<"e", "x", "i", "t">>}
            => (pc = "exited" /\ trace = <<>>)
       /\ choice \in {<<"a">>, <<"a", "l", "l">>}
            => (recent /\ full /\ clean /\ upload)

\* C18: start(true) calls neither batchWriteItem nor createTable.
C18_DryLeavesDatastore == dryArg => (bwCalls = <<>> /\ createCalls = 0)

\* C19: createTable is called at most once, and the creation question is
\* asked at most once, in one startLoading.
C19_CreateOnce == totalCreates <= 1 /\ totalPrompts <= 1

\* C20: every start() call ends, by returning or by throwing.
C20_Terminates == <>(lpc \in {"returned", "threw"})

\* C20 witness: a start() over three chunks has returned although every
\* submission was reported unprocessed as a whole.
C20_Witness ==
  /\ lpc = "returned"
  /\ Len(bwCalls) = 3
  /\ Len(reports) = 3
  /\ \A k \in DOMAIN reports :
       /\ reports[k].ids # {}
       /\ reports[k].ids = Ids(ItemsOf(bwCalls[k].request))

====
